---- MODULE Spec2Model ----
(***************************************************************************)
(* A model of the TCEES validator service:                                 *)
(*   src/tcees_validator.py  the Selenium driven validator                 *)
(*   src/tcees_service.py    the Flask wrapper (POST /validate)            *)
(*                                                                         *)
(* Python values are represented as follows.  A text is a sequence of      *)
(* atomic fragments (strings); `x in text` is containment of a fragment.   *)
(* A file name or path is a sequence of characters.  The three status      *)
(* values True / False / None are the strings "True", "False", "None".     *)
(* A status list that is None is the empty sequence (the code only ever    *)
(* tests it with `not statuses`).  A dict is a record.                     *)
(***************************************************************************)
EXTENDS Integers, Sequences, FiniteSets, TLC

VARIABLES
    \* ---- _status_from_cell_html, run on its own
    cell_html,          \* the argument
    cell_status,        \* the returned status, "unset" before the call
    \* ---- validate_pdf_with_tcees
    pdf,                \* the argument pdf_path and the file behind it
    quick_mode,         \* the argument quick_mode
    pc,                 \* position of the function
    driver,             \* the local `driver`: "none" or "live"
    calls,              \* browser life-cycle calls made so far, in order
    waited,             \* the local `waited`
    stable_count,       \* the local `stable_count`
    last_signature,     \* the local `last_signature`
    parsed_statuses,    \* the local `parsed_statuses`
    prev_poll,          \* history: reading of the poll before the last one
    last_poll,          \* history: reading of the last poll
    polls,              \* history: number of polls made
    last_qualified,     \* history: the last reading of the loop with eight
                        \* statuses, six or more of them resolved
    reread,             \* what the call of line 406 returned, if made
    from_html,          \* what the call of line 408 returned, if made
    statuses_used,      \* the local `statuses` of lines 404-408
    results,            \* the local dict `results`
    parsed_ok,          \* the local `parsed_ok`: "unset", "True", "False"
    error,              \* str(error) of the exception caught, if any
    ret,                \* the returned dict
    \* ---- validate_multiple_pdfs
    arg_paths,          \* the argument pdf_paths as given
    max_workers,        \* the argument max_workers
    pdf_paths,          \* the local pdf_paths, after the slice
    batch_pc,           \* position of the function
    pool_size,          \* max_workers of the ThreadPoolExecutor
    task,               \* per submitted call: queued, running, returned,
                        \* raised, cancelled
    fut,                \* per submitted call: the dict it returned
    completed,          \* history: the calls in the order they finished
    batch_results,      \* the local `results`
    \* ---- POST /validate
    api_secret,         \* API_SECRET
    max_file_mb,        \* MAX_FILE_MB
    req,                \* per request: what the client sent
    handler_pc,         \* per request: position of the handler
    tmp_path,           \* per request: the local tmp_path
    handler_log,        \* per request: history of what the handler did
    resultado,          \* per request: the local `resultado`
    resp,               \* per request: the response
    tmp_files           \* the temporary files that exist

vars == <<cell_html, cell_status, pdf, quick_mode, pc, driver, calls, waited,
          stable_count, last_signature, parsed_statuses, prev_poll, last_poll,
          polls, last_qualified, reread, from_html, statuses_used, results,
          parsed_ok,
          error, ret, arg_paths, max_workers, pdf_paths, batch_pc, pool_size,
          task, fut, completed, batch_results, api_secret, max_file_mb, req,
          handler_pc, tmp_path, handler_log, resultado, resp, tmp_files>>

cellVars == <<cell_html, cell_status>>
valVars  == <<pdf, quick_mode, pc, driver, calls, waited, stable_count,
              last_signature, parsed_statuses, prev_poll, last_poll, polls,
              last_qualified, reread, from_html, statuses_used, results,
              parsed_ok, error, ret>>
poolVars == <<arg_paths, max_workers, pdf_paths, batch_pc, pool_size, task,
              fut, completed, batch_results>>
svcVars  == <<api_secret, max_file_mb, req, handler_pc, tmp_path, handler_log,
              resultado, resp, tmp_files>>

-----------------------------------------------------------------------------
(* Generic helpers                                                         *)

\* All sequences over S of length at most n.
SeqsUpTo(S, n) == UNION {[1..k -> S] : k \in 0..n}

\* Python's `x in text` at the granularity of fragments.
Contains(text, fragment) == \E i \in 1..Len(text) : text[i] = fragment

\* sum(flag for flag in flags) over a sequence of BOOLEANs.
RECURSIVE CountTrue(_)
CountTrue(flags) ==
    IF flags = <<>> THEN 0
    ELSE (IF Head(flags) THEN 1 ELSE 0) + CountTrue(Tail(flags))

-----------------------------------------------------------------------------
(* _status_from_cell_html                                                  *)

success_markers == <<"fa-check", "text-success", "title=\"ok\"">>

failure_markers == <<"fa-close", "fa-times", "text-danger", "nao assinado",
                     "não assinado", "invalido", "inválido", "erro">>

\* str.lower() on one markup fragment.
LowerFragment(f) ==
    CASE f = "FA-CHECK"     -> "fa-check"
      [] f = "Text-Success" -> "text-success"
      [] f = "TITLE=\"OK\"" -> "title=\"ok\""
      [] f = "FA-TIMES"     -> "fa-times"
      [] f = "NÃO ASSINADO" -> "não assinado"
      [] f = "Nao Assinado" -> "nao assinado"
      [] f = "Erro"         -> "erro"
      [] OTHER              -> f

\* str.lower() on a text.
Lower(text) == [i \in 1..Len(text) |-> LowerFragment(text[i])]

\* any(marker in html for marker in markers)
AnyMarkerIn(markers, html) ==
    \E m \in 1..Len(markers) : Contains(html, markers[m])

StatusFromCellHtml_NoOverride(cell) ==
    LET html       == Lower(cell)
        is_success == AnyMarkerIn(success_markers, html)
        is_failure == AnyMarkerIn(failure_markers, html)
    IN  IF is_success THEN "True"
        ELSE IF is_failure THEN "False"
        ELSE "None"

\* cell is the text of the cell; None is passed as the empty text, which is
\* what `(cell_html or '')` makes of it.
StatusFromCellHtml(cell) ==
    LET html       == Lower(cell)
        is_success == AnyMarkerIn(success_markers, html)
        is_failure == AnyMarkerIn(failure_markers, html)
    IN  IF is_failure /\ ~is_success THEN "False"
        ELSE IF is_success /\ ~is_failure THEN "True"
        ELSE IF is_success /\ is_failure THEN "False"
        ELSE "None"

-----------------------------------------------------------------------------
(* Program constants                                                       *)

Eight        == 8      \* the number of indicators the portal shows
MinResolved  == 6      \* resolved >= 6
PollInterval == 2      \* poll_interval
MaxWaitNormal == 55    \* max_wait, quick_mode False
MaxWaitQuick  == 30    \* max_wait, quick_mode True

MaxWait(quick) == IF quick THEN MaxWaitQuick ELSE MaxWaitNormal

-----------------------------------------------------------------------------
(* Paths: sequences of characters                                          *)

LowerChar(c) ==
    CASE c = "A" -> "a" [] c = "B" -> "b" [] c = "D" -> "d"
      [] c = "F" -> "f" [] c = "P" -> "p" [] c = "T" -> "t"
      [] c = "X" -> "x" [] OTHER -> c

LowerChars(s) == [i \in 1..Len(s) |-> LowerChar(s[i])]

\* Index of the last occurrence of character c in s, 0 when there is none.
LastIndexOf(s, c) ==
    LET hits == {i \in 1..Len(s) : s[i] = c}
    IN  IF hits = {} THEN 0 ELSE CHOOSE i \in hits : \A j \in hits : j <= i

\* os.path.basename
Basename(path) == SubSeq(path, LastIndexOf(path, "/") + 1, Len(path))

\* os.path.splitext(path)[1]: from the last dot of the last component, when a
\* character other than a dot comes before it in that component.
SplitextExt(path) ==
    LET base == Basename(path)
        dot  == LastIndexOf(base, ".")
    IN  IF dot > 0 /\ \E i \in 1..(dot - 1) : base[i] # "."
        THEN SubSeq(base, dot, Len(base))
        ELSE <<>>

\* str.endswith
EndsWith(s, suffix) ==
    /\ Len(s) >= Len(suffix)
    /\ SubSeq(s, Len(s) - Len(suffix) + 1, Len(s)) = suffix

DotPdf == <<".", "p", "d", "f">>

-----------------------------------------------------------------------------
(* _friendly_network_error                                                 *)

\* str.upper() on one fragment of an error text.
UpperFragment(f) ==
    CASE f = "err_name_not_resolved"   -> "ERR_NAME_NOT_RESOLVED"
      [] f = "err_connection_refused"  -> "ERR_CONNECTION_REFUSED"
      [] f = "timeout"                 -> "TIMEOUT"
      [] f = "Timeout"                 -> "TIMEOUT"
      [] f = "unknown error"           -> "UNKNOWN ERROR"
      [] OTHER                         -> f

Upper(text) == [i \in 1..Len(text) |-> UpperFragment(text[i])]

\* The friendly messages, one fragment each.
MsgNetworkBlocked == <<"Servidor hospedado sem acesso ao site do TCEES">>
MsgDnsError       == <<"Falha de DNS ao resolver o dominio do TCEES">>
MsgTimeout        == <<"Tempo limite ao conectar no site do TCEES">>
MsgRefused        == <<"Conexao recusada ao acessar o TCEES">>
MsgClosed         == <<"Conexao encerrada pelo destino/rede">>

FriendlyNetworkError_RefusedFirst(text) ==
    LET upper == Upper(text)
    IN  IF Contains(upper, "ERR_CONNECTION_REFUSED")
        THEN [code |-> "TCEES_CONNECTION_REFUSED", message |-> MsgRefused]
        ELSE IF Contains(upper, "ERR_TUNNEL_CONNECTION_FAILED")
        THEN [code |-> "TCEES_NETWORK_BLOCKED", message |-> MsgNetworkBlocked]
        ELSE IF Contains(upper, "ERR_NAME_NOT_RESOLVED")
        THEN [code |-> "TCEES_DNS_ERROR", message |-> MsgDnsError]
        ELSE IF Contains(upper, "ERR_CONNECTION_TIMED_OUT")
                \/ Contains(upper, "TIMEOUT")
        THEN [code |-> "TCEES_TIMEOUT", message |-> MsgTimeout]
        ELSE IF Contains(upper, "ERR_CONNECTION_CLOSED")
        THEN [code |-> "TCEES_CONNECTION_CLOSED", message |-> MsgClosed]
        ELSE [code |-> "None", message |-> text]

\* Returns the pair (code, message); the code None is "None".
FriendlyNetworkError(text) ==
    LET upper == Upper(text)
    IN  IF Contains(upper, "ERR_TUNNEL_CONNECTION_FAILED")
        THEN [code |-> "TCEES_NETWORK_BLOCKED", message |-> MsgNetworkBlocked]
        ELSE IF Contains(upper, "ERR_NAME_NOT_RESOLVED")
        THEN [code |-> "TCEES_DNS_ERROR", message |-> MsgDnsError]
        ELSE IF Contains(upper, "ERR_CONNECTION_TIMED_OUT")
                \/ Contains(upper, "TIMEOUT")
        THEN [code |-> "TCEES_TIMEOUT", message |-> MsgTimeout]
        ELSE IF Contains(upper, "ERR_CONNECTION_REFUSED")
        THEN [code |-> "TCEES_CONNECTION_REFUSED", message |-> MsgRefused]
        ELSE IF Contains(upper, "ERR_CONNECTION_CLOSED")
        THEN [code |-> "TCEES_CONNECTION_CLOSED", message |-> MsgClosed]
        ELSE [code |-> "None", message |-> text]

-----------------------------------------------------------------------------
(* _statuses_signature, _extract_statuses_from_driver,                     *)
(* _extract_statuses_from_html                                             *)

SignatureChar(s) == IF s = "True" THEN "1" ELSE IF s = "False" THEN "0" ELSE "?"

\* The signature is kept as the sequence of its characters; '' is <<>>.
StatusesSignature(statuses) ==
    IF statuses = <<>> THEN <<>>
    ELSE [i \in 1..Len(statuses) |-> SignatureChar(statuses[i])]

\* sum(status is not None for status in statuses)
Resolved(statuses) == Cardinality({i \in 1..Len(statuses) : statuses[i] # "None"})

\* cells[:8]
FirstEight(cells) == SubSeq(cells, 1, IF Len(cells) < Eight THEN Len(cells) ELSE Eight)

\* A cell whose get_attribute('innerHTML') raises.
StaleCell == <<"<stale element>">>

\* cell.get_attribute('innerHTML') or '', '' when it raises.
CellInnerHtml(cell) == IF cell = StaleCell THEN <<>> ELSE cell

\* The statuses of the first eight cells one selector found.
CellStatuses(cells) ==
    LET first == FirstEight(cells)
    IN  [i \in 1..Len(first) |-> StatusFromCellHtml(CellInnerHtml(first[i]))]

\* The loop over the selectors from selector k on.  dom[k] is what
\* find_elements gives for selector k: [raises, cells].
RECURSIVE ExtractFrom(_, _, _, _)
ExtractFrom(dom, k, best_candidate, best_resolved) ==
    IF k > Len(dom) THEN best_candidate
    ELSE IF dom[k].raises \/ Len(dom[k].cells) < Eight
    THEN ExtractFrom(dom, k + 1, best_candidate, best_resolved)
    ELSE LET statuses == CellStatuses(dom[k].cells)
             resolved == Resolved(statuses)
         IN  IF resolved >= MinResolved THEN statuses
             ELSE IF resolved > best_resolved
             THEN ExtractFrom(dom, k + 1, statuses, resolved)
             ELSE ExtractFrom(dom, k + 1, best_candidate, best_resolved)

ExtractStatusesFromDriver(dom) == ExtractFrom(dom, 1, <<>>, -1)

\* page_html is [empty, anchor, cells]: whether it is '', whether it holds
\* id="validacoes-arquivo", and the inner HTML of the d-inline-block divs the
\* regular expression finds in the 30000 characters from there on.
ExtractStatusesFromHtml(page_html) ==
    IF page_html.empty THEN <<>>
    ELSE IF ~page_html.anchor THEN <<>>
    ELSE IF Len(page_html.cells) < Eight THEN <<>>
    ELSE LET first == FirstEight(page_html.cells)
         IN  [i \in 1..Len(first) |-> StatusFromCellHtml(first[i])]

-----------------------------------------------------------------------------
(* _apply_statuses_to_results and the record validate_pdf_with_tcees       *)
(* builds                                                                  *)

\* The dict `results` as first built.  data_validacao, the wall clock time,
\* is left out.
InitialResults(p) ==
    [nome_arquivo         |-> Basename(p.path),
     tamanho_bytes        |-> p.size,
     extensao_valida      |-> FALSE,
     sem_senha            |-> FALSE,
     tamanho_arquivo_ok   |-> FALSE,
     tamanho_pagina_ok    |-> FALSE,
     assinado             |-> FALSE,
     numero_assinaturas   |-> 0,
     autenticidade_ok     |-> FALSE,
     integridade_ok       |-> FALSE,
     pesquisavel          |-> FALSE,
     resultado_final      |-> "ERRO",
     pontuacao            |-> 0,
     titular_certificado  |-> <<>>,
     emissor_certificado  |-> <<>>,
     validade_certificado |-> <<>>,
     mensagem_erro        |-> <<>>]

\* The verdict written to resultado_final, from the statuses and the seven
\* checks already written to the record r.
FinalVerdict_Inferred(statuses, r) ==
    IF r.extensao_valida /\ r.sem_senha /\ r.tamanho_arquivo_ok
       /\ r.tamanho_pagina_ok /\ r.assinado /\ r.autenticidade_ok
       /\ r.pesquisavel
    THEN "VALIDADO" ELSE "NÃO VALIDADO"

FinalVerdict(statuses, r) ==
    IF statuses[8] = "True" THEN "VALIDADO"
    ELSE IF statuses[8] = "False" THEN "NÃO VALIDADO"
    ELSE IF r.extensao_valida /\ r.sem_senha /\ r.tamanho_arquivo_ok
            /\ r.tamanho_pagina_ok /\ r.assinado /\ r.autenticidade_ok
            /\ r.pesquisavel
    THEN "VALIDADO" ELSE "NÃO VALIDADO"

ApplyStatusesToResults_SplitColumn(r, statuses, page_text) ==
    IF statuses = <<>> \/ Len(statuses) < Eight
    THEN [ok |-> FALSE, results |-> r]
    ELSE LET checks ==
                 [r EXCEPT !.extensao_valida    = (statuses[1] = "True"),
                           !.sem_senha          = (statuses[2] = "True"),
                           !.tamanho_arquivo_ok = (statuses[3] = "True"),
                           !.tamanho_pagina_ok  = (statuses[4] = "True"),
                           !.assinado           = (statuses[5] = "True"),
                           !.numero_assinaturas =
                               IF statuses[5] = "True" THEN 1 ELSE 0,
                           !.autenticidade_ok   = (statuses[6] = "True"),
                           !.integridade_ok     = (statuses[7] = "True"),
                           !.pesquisavel        = (statuses[7] = "True")]
             verdict == [checks EXCEPT
                           !.resultado_final = FinalVerdict(statuses, checks)]
             lower_text == Lower(page_text)
         IN  [ok |-> TRUE,
              results |->
                 IF (Contains(lower_text, "nao assinado")
                       \/ Contains(lower_text, "não assinado"))
                    /\ ~verdict.assinado
                 THEN [verdict EXCEPT
                         !.mensagem_erro = <<"Arquivo não assinado">>]
                 ELSE verdict]

\* Returns the pair (returned value, the dict as it is after the call).
\* statuses[1] is the code's statuses[0].
ApplyStatusesToResults(r, statuses, page_text) ==
    IF statuses = <<>> \/ Len(statuses) < Eight
    THEN [ok |-> FALSE, results |-> r]
    ELSE LET checks ==
                 [r EXCEPT !.extensao_valida    = (statuses[1] = "True"),
                           !.sem_senha          = (statuses[2] = "True"),
                           !.tamanho_arquivo_ok = (statuses[3] = "True"),
                           !.tamanho_pagina_ok  = (statuses[4] = "True"),
                           !.assinado           = (statuses[5] = "True"),
                           !.numero_assinaturas =
                               IF statuses[5] = "True" THEN 1 ELSE 0,
                           !.autenticidade_ok   = (statuses[6] = "True"),
                           !.integridade_ok     = (statuses[6] = "True"),
                           !.pesquisavel        = (statuses[7] = "True")]
             verdict == [checks EXCEPT
                           !.resultado_final = FinalVerdict(statuses, checks)]
             lower_text == Lower(page_text)
         IN  [ok |-> TRUE,
              results |->
                 IF (Contains(lower_text, "nao assinado")
                       \/ Contains(lower_text, "não assinado"))
                    /\ ~verdict.assinado
                 THEN [verdict EXCEPT
                         !.mensagem_erro = <<"Arquivo não assinado">>]
                 ELSE verdict]

\* The fallback of validate_pdf_with_tcees when the statuses were not parsed.
ParseFallback(r, p) ==
    [r EXCEPT !.extensao_valida    = (LowerChars(SplitextExt(p.path)) = DotPdf),
              !.tamanho_arquivo_ok = (p.size > 0),
              !.mensagem_erro      =
                  <<"Não foi possível interpretar a resposta do TCEES.">>,
              !.resultado_final    = "ERRO"]

\* campos_ok
CamposOk_WithIntegridade(r) ==
    CountTrue(<<r.extensao_valida, r.sem_senha, r.tamanho_arquivo_ok,
                r.tamanho_pagina_ok, r.assinado, r.autenticidade_ok,
                r.integridade_ok, r.pesquisavel>>)

CamposOk(r) ==
    CountTrue(<<r.extensao_valida, r.sem_senha, r.tamanho_arquivo_ok,
                r.tamanho_pagina_ok, r.assinado, r.autenticidade_ok,
                r.pesquisavel>>)

\* Binary fractions carry FracBits bits after the point; the code's floats
\* carry more, rounding the same way.
FracBits == 20
One == 2 ^ FracBits

\* a / b rounded to the nearest binary fraction.
DivRound(a, b) == (2 * a * One + b) \div (2 * b)

\* int((campos_ok / 7) * 100): divide, round, multiply, round, truncate.
Pontuacao(campos_ok) ==
    LET quotient == DivRound(campos_ok, 7)
        product  == quotient * 100
    IN  product \div One

-----------------------------------------------------------------------------
(* What validate_pdf_with_tcees is given: the file, the portal's page, the *)
(* browser's errors                                                        *)

\* pdf_path with the file behind it: whether it is a file, and its size.
Pdfs ==
    { [path |-> <<"u", "/", "a", ".", "p", "d", "f">>, exists |-> TRUE,  size |-> 1],
      [path |-> <<"B", ".", "P", "D", "F">>,           exists |-> TRUE,  size |-> 0],
      [path |-> <<"u", "/", "c", ".", "t", "x", "t">>, exists |-> TRUE,  size |-> 1],
      [path |-> <<".", "p", "d", "f">>,                exists |-> TRUE,  size |-> 0],
      [path |-> <<"u", "/", "a", ".", "p", "d", "f">>, exists |-> FALSE, size |-> 0] }

\* Markup of one cell of the results row.
CellPending == <<"fa-spinner">>
CellOk      == <<"fa", "fa-check", "text-success">>
CellFail    == <<"fa", "FA-TIMES", "text-danger">>

\* A row of eight cells: the first r are resolved, those in fails as failures;
\* of the others, the first is stale and the rest still spin.
Row(r, fails) ==
    [i \in 1..Eight |->
        IF i <= r THEN (IF i \in fails THEN CellFail ELSE CellOk)
        ELSE IF i = r + 1 THEN StaleCell ELSE CellPending]

PollRows == {Row(r, fails) : r \in {5, 6, 8}, fails \in {{}, {5}}}

\* What find_elements gives for one selector: it raises, finds too few cells,
\* finds a row, or finds a row and a ninth cell.
SelectorResults ==
    {[raises |-> TRUE, cells |-> <<>>]}
    \cup {[raises |-> FALSE, cells |-> SubSeq(Row(8, {}), 1, 7)]}
    \cup {[raises |-> FALSE, cells |-> Append(Row(8, {5}), CellFail)]}
    \cup {[raises |-> FALSE, cells |-> row] : row \in PollRows}

\* The page as the three selectors see it at one poll; the third selector,
\* the second below #validacoes-body, finds what the second finds.
PollDoms ==
    {<<s1, s2, s2>> : s1 \in SelectorResults, s2 \in SelectorResults}

\* The page as the three selectors see it after the loop.
FinalDoms == {<<s, s, s>> : s \in SelectorResults}

\* driver.page_source
HtmlDocs ==
    { [empty |-> TRUE,  anchor |-> FALSE, cells |-> <<>>],
      [empty |-> FALSE, anchor |-> FALSE, cells |-> Row(8, {})],
      [empty |-> FALSE, anchor |-> TRUE,  cells |-> SubSeq(Row(8, {}), 1, 7)],
      [empty |-> FALSE, anchor |-> TRUE,  cells |-> Row(8, {})],
      [empty |-> FALSE, anchor |-> TRUE,  cells |-> Row(6, {5})] }

\* The text of the page's body.
BodyTexts == { <<>>, <<"Arquivo", "NÃO ASSINADO">>, <<"Assinado">> }

\* What the two reads of the page give: page_source raising leaves both '',
\* the body read raising leaves page_text ''.
PageReads ==
    {[html |-> [empty |-> TRUE, anchor |-> FALSE, cells |-> <<>>], text |-> <<>>]}
    \cup {[html |-> h, text |-> <<>>] : h \in HtmlDocs}
    \cup {[html |-> h, text |-> t] : h \in HtmlDocs, t \in BodyTexts}

\* Texts of the exceptions the browser raises.
MaxErrorFragments == 2
ErrorFragments ==
    {"ERR_TUNNEL_CONNECTION_FAILED", "ERR_NAME_NOT_RESOLVED",
     "err_name_not_resolved", "ERR_CONNECTION_TIMED_OUT", "timeout",
     "ERR_CONNECTION_REFUSED", "ERR_CONNECTION_CLOSED", "unknown error"}
ErrorTexts == SeqsUpTo(ErrorFragments, MaxErrorFragments)

\* Text of the OSError os.path.getsize raises.
FileGoneText == <<"[Errno 2] No such file or directory">>

-----------------------------------------------------------------------------
(* validate_pdf_with_tcees                                                 *)

NoRecord == [absent |-> TRUE]

\* The value of `error` while no exception has been raised.
NoError == <<"<no exception>">>

\* The value kept for a call that was not made.
NotCalled == <<"<not called>">>

\* The dict returned when pdf_path is not a file.
MissingFileRecord(p) ==
    [nome_arquivo    |-> Basename(p.path),
     resultado_final |-> "ERRO",
     pontuacao       |-> 0,
     erro            |-> <<"Arquivo não encontrado">>]

\* The dict returned from the except clause.
ErrorRecord(p, text) ==
    LET friendly == FriendlyNetworkError(text)
    IN  [nome_arquivo         |-> Basename(p.path),
         extensao_valida      |-> FALSE,
         sem_senha            |-> FALSE,
         tamanho_arquivo_ok   |-> FALSE,
         tamanho_pagina_ok    |-> FALSE,
         assinado             |-> FALSE,
         numero_assinaturas   |-> 0,
         autenticidade_ok     |-> FALSE,
         integridade_ok       |-> FALSE,
         pesquisavel          |-> FALSE,
         resultado_final      |-> "ERRO",
         pontuacao            |-> 0,
         titular_certificado  |-> <<>>,
         emissor_certificado  |-> <<>>,
         validade_certificado |-> <<>>,
         erro                 |-> IF friendly.message # <<>>
                                  THEN friendly.message ELSE text,
         erro_codigo          |-> IF friendly.code # "None"
                                  THEN friendly.code
                                  ELSE "TCEES_VALIDATION_ERROR",
         erro_tecnico         |-> text]

\* The state of a call that has not begun.
ValidatorAt(position) ==
    /\ pc = position
    /\ driver = "none"
    /\ calls = <<>>
    /\ waited = 0
    /\ stable_count = 0
    /\ last_signature = <<>>
    /\ parsed_statuses = <<>>
    /\ prev_poll = <<>>
    /\ last_poll = <<>>
    /\ polls = 0
    /\ last_qualified = <<>>
    /\ reread = NotCalled
    /\ from_html = NotCalled
    /\ statuses_used = <<>>
    /\ results = NoRecord
    /\ parsed_ok = "unset"
    /\ error = NoError
    /\ ret = NoRecord

CellIdle == cell_html = <<>> /\ cell_status = "unset"

\* validate_multiple_pdfs is not being called.
PoolIdle ==
    /\ arg_paths = <<>>
    /\ max_workers = 0
    /\ pdf_paths = <<>>
    /\ batch_pc = "idle"
    /\ pool_size = 0
    /\ task = <<>>
    /\ fut = <<>>
    /\ completed = <<>>
    /\ batch_results = <<>>

\* The service is not running.
ServiceIdle ==
    /\ api_secret = ""
    /\ max_file_mb = 0
    /\ req = <<>>
    /\ handler_pc = <<>>
    /\ tmp_path = <<>>
    /\ handler_log = <<>>
    /\ resultado = <<>>
    /\ resp = <<>>
    /\ tmp_files = {}

\* Lines 289-295: the missing-file check.
CheckFile ==
    /\ pc = "start"
    /\ IF ~pdf.exists
       THEN /\ ret' = MissingFileRecord(pdf)
            /\ pc' = "done"
       ELSE /\ pc' = "open"
            /\ UNCHANGED ret
    /\ UNCHANGED <<pdf, quick_mode, driver, calls, waited, stable_count,
                   last_signature, parsed_statuses, prev_poll, last_poll,
                   polls, results, parsed_ok, error>>
    /\ UNCHANGED <<statuses_used, last_qualified, reread, from_html>>
    /\ UNCHANGED <<cellVars, poolVars, svcVars>>

\* Lines 297-316: webdriver.Chrome(...) gives a driver or raises.
StartDriver ==
    /\ pc = "open"
    /\ \/ /\ driver' = "live"
          /\ calls' = Append(calls, "start")
          /\ pc' = "navigate"
          /\ UNCHANGED error
       \/ \E text \in ErrorTexts :
            /\ error' = text
            /\ calls' = Append(calls, "start failed")
            /\ pc' = "except"
            /\ UNCHANGED driver
    /\ UNCHANGED <<pdf, quick_mode, waited, stable_count, last_signature,
                   parsed_statuses, prev_poll, last_poll, polls, results,
                   parsed_ok, ret>>
    /\ UNCHANGED <<statuses_used, last_qualified, reread, from_html>>
    /\ UNCHANGED <<cellVars, poolVars, svcVars>>

\* Lines 318-336: set_page_load_timeout, get, the wait for the file input
\* and send_keys; any of them may raise.  Then the loop's variables are set.
Navigate ==
    /\ pc = "navigate"
    /\ \/ /\ waited' = 0
          /\ stable_count' = 0
          /\ last_signature' = <<>>
          /\ parsed_statuses' = <<>>
          /\ pc' = "poll"
          /\ UNCHANGED error
       \/ \E text \in ErrorTexts :
            /\ error' = text
            /\ pc' = "except"
            /\ UNCHANGED <<waited, stable_count, last_signature, parsed_statuses>>
    /\ UNCHANGED <<pdf, quick_mode, driver, calls, prev_poll, last_poll, polls,
                   results, parsed_ok, ret>>
    /\ UNCHANGED <<statuses_used, last_qualified, reread, from_html>>
    /\ UNCHANGED <<cellVars, poolVars, svcVars>>

PollUpdate_KeepOnlyWhenStable(loop, statuses) ==
    LET w == loop.waited + PollInterval
    IN  IF statuses # <<>> /\ Len(statuses) >= Eight
           /\ Resolved(statuses) >= MinResolved
        THEN LET signature == StatusesSignature(statuses)
                 count == IF signature = loop.last_signature
                          THEN loop.stable_count + 1 ELSE 0
             IN  [waited          |-> w,
                  stable_count    |-> count,
                  last_signature  |-> IF signature = loop.last_signature
                                      THEN loop.last_signature ELSE signature,
                  parsed_statuses |-> IF count >= 1 THEN statuses
                                      ELSE loop.parsed_statuses,
                  leave           |-> count >= 1]
        ELSE [waited          |-> w,
              stable_count    |-> loop.stable_count,
              last_signature  |-> loop.last_signature,
              parsed_statuses |-> loop.parsed_statuses,
              leave           |-> FALSE]

\* One pass of the body of `while waited < max_wait` (lines 339-361) on the
\* loop's variables, given what _extract_statuses_from_driver returned;
\* leave is whether the pass ends in `break`.
PollUpdate(loop, statuses) ==
    LET w == loop.waited + PollInterval
    IN  IF statuses # <<>> /\ Len(statuses) >= Eight
           /\ Resolved(statuses) >= MinResolved
        THEN LET signature == StatusesSignature(statuses)
                 count == IF signature = loop.last_signature
                          THEN loop.stable_count + 1 ELSE 0
             IN  [waited          |-> w,
                  stable_count    |-> count,
                  last_signature  |-> IF signature = loop.last_signature
                                      THEN loop.last_signature ELSE signature,
                  parsed_statuses |-> statuses,
                  leave           |-> count >= 1]
        ELSE [waited          |-> w,
              stable_count    |-> loop.stable_count,
              last_signature  |-> loop.last_signature,
              parsed_statuses |-> loop.parsed_statuses,
              leave           |-> FALSE]

\* What _extract_statuses_from_driver returns at a poll, over the pages the
\* portal may show.
PollReadings == {ExtractStatusesFromDriver(dom) : dom \in PollDoms}

\* Lines 338-361: one pass of the polling loop, and the test that follows it.
Poll ==
    /\ pc = "poll"
    /\ waited < MaxWait(quick_mode)
    /\ \E reading \in PollReadings :
         LET next == PollUpdate([waited          |-> waited,
                                 stable_count    |-> stable_count,
                                 last_signature  |-> last_signature,
                                 parsed_statuses |-> parsed_statuses],
                                reading)
         IN  /\ waited' = next.waited
             /\ stable_count' = next.stable_count
             /\ last_signature' = next.last_signature
             /\ parsed_statuses' = next.parsed_statuses
             /\ prev_poll' = last_poll
             /\ last_poll' = reading
             /\ polls' = polls + 1
             /\ last_qualified' = IF Len(reading) >= Eight
                                     /\ Resolved(reading) >= MinResolved
                                  THEN reading ELSE last_qualified
             /\ pc' = IF next.leave \/ ~(next.waited < MaxWait(quick_mode))
                      THEN "build" ELSE "poll"
    /\ UNCHANGED <<pdf, quick_mode, driver, calls, results, parsed_ok, error, ret>>
    /\ UNCHANGED <<statuses_used, reread, from_html>>
    /\ UNCHANGED <<cellVars, poolVars, svcVars>>

ChooseStatuses_HtmlBeforeReread(parsed, dom, page_html) ==
    IF parsed # <<>> THEN parsed
    ELSE LET markup == ExtractStatusesFromHtml(page_html)
         IN  IF markup # <<>> THEN markup
             ELSE ExtractStatusesFromDriver(dom)

\* Lines 404-408: the statuses the record is built from.
ChooseStatuses(parsed, dom, page_html) ==
    IF parsed # <<>> THEN parsed
    ELSE LET again == ExtractStatusesFromDriver(dom)
         IN  IF again # <<>> THEN again
             ELSE ExtractStatusesFromHtml(page_html)

\* What _extract_statuses_from_driver returns at line 406, called only when
\* the loop left nothing.
RereadCall(parsed, dom) ==
    IF parsed # <<>> THEN NotCalled ELSE ExtractStatusesFromDriver(dom)

\* What _extract_statuses_from_html returns at line 408, called only when
\* the loop and the call of line 406 left nothing.
FromHtmlCall(parsed, dom, page_html) ==
    IF parsed # <<>> THEN NotCalled
    ELSE IF ExtractStatusesFromDriver(dom) # <<>> THEN NotCalled
    ELSE ExtractStatusesFromHtml(page_html)

\* The statuses chosen and the page text read after the loop, over the pages
\* the portal may show then, with what the two calls returned.
FinalReads(parsed) ==
    {[statuses  |-> ChooseStatuses(parsed, dom, page.html),
      text      |-> page.text,
      reread    |-> RereadCall(parsed, dom),
      from_html |-> FromHtmlCall(parsed, dom, page.html)] :
        dom \in FinalDoms, page \in PageReads}

\* Lines 363-410: the record is built, the page read and the statuses
\* applied; os.path.getsize raises when the file is gone by then.  The
\* history of the polls ends here.
Build ==
    /\ pc = "build"
    /\ \/ /\ error' = FileGoneText
          /\ pc' = "except"
          /\ UNCHANGED <<statuses_used, reread, from_html, results, parsed_ok>>
       \/ \E read \in FinalReads(parsed_statuses) :
            LET applied == ApplyStatusesToResults(InitialResults(pdf),
                                                  read.statuses, read.text)
            IN  /\ statuses_used' = read.statuses
                /\ reread' = read.reread
                /\ from_html' = read.from_html
                /\ results' = applied.results
                /\ parsed_ok' = IF applied.ok THEN "True" ELSE "False"
                /\ pc' = "score"
                /\ UNCHANGED error
    /\ prev_poll' = <<>>
    /\ last_poll' = <<>>
    /\ UNCHANGED <<pdf, quick_mode, driver, calls, waited, stable_count,
                   last_signature, parsed_statuses, polls, last_qualified, ret>>
    /\ UNCHANGED <<cellVars, poolVars, svcVars>>

\* Lines 412-444: the fallback when nothing was parsed, the score, the
\* return; os.path.getsize of the fallback raises when the file is gone.
Score ==
    /\ pc = "score"
    /\ \/ /\ parsed_ok = "False"
          /\ error' = FileGoneText
          /\ pc' = "except"
          /\ UNCHANGED <<results, ret>>
       \/ LET checked == IF parsed_ok = "False"
                         THEN ParseFallback(results, pdf) ELSE results
              scored  == [checked EXCEPT
                            !.pontuacao = Pontuacao(CamposOk(checked))]
          IN  /\ results' = scored
              /\ ret' = scored
              /\ pc' = "finally"
              /\ UNCHANGED error
    /\ UNCHANGED <<pdf, quick_mode, driver, calls, waited, stable_count,
                   last_signature, parsed_statuses, prev_poll, last_poll,
                   polls, parsed_ok>>
    /\ UNCHANGED <<statuses_used, last_qualified, reread, from_html>>
    /\ UNCHANGED <<cellVars, poolVars, svcVars>>

\* Lines 446-477: the except clause: a screenshot when there is a driver,
\* which may fail, and the error record.
HandleException ==
    /\ pc = "except"
    /\ \/ /\ driver = "none"
          /\ UNCHANGED calls
       \/ /\ driver # "none"
          /\ \E shot \in {"screenshot", "screenshot failed"} :
               calls' = Append(calls, shot)
    /\ ret' = ErrorRecord(pdf, error)
    /\ pc' = "finally"
    /\ UNCHANGED <<pdf, quick_mode, driver, waited, stable_count,
                   last_signature, parsed_statuses, prev_poll, last_poll,
                   polls, results, parsed_ok, error>>
    /\ UNCHANGED <<statuses_used, last_qualified, reread, from_html>>
    /\ UNCHANGED <<cellVars, poolVars, svcVars>>

Finally_QuitOnlyWithoutError ==
    /\ pc = "finally"
    /\ \/ /\ (driver = "none" \/ error # NoError)
          /\ UNCHANGED calls
       \/ /\ driver # "none"
          /\ error = NoError
          /\ \E quit \in {"quit", "quit failed"} :
               calls' = Append(calls, quit)
    /\ pc' = "done"
    /\ UNCHANGED <<pdf, quick_mode, driver, waited, stable_count,
                   last_signature, parsed_statuses, prev_poll, last_poll,
                   polls, results, parsed_ok, error, ret>>
    /\ UNCHANGED <<statuses_used, last_qualified, reread, from_html>>
    /\ UNCHANGED <<cellVars, poolVars, svcVars>>

\* Lines 479-485: the finally clause: driver.quit() when there is a driver,
\* which may fail; then the function returns ret.
Finally ==
    /\ pc = "finally"
    /\ \/ /\ driver = "none"
          /\ UNCHANGED calls
       \/ /\ driver # "none"
          /\ \E quit \in {"quit", "quit failed"} :
               calls' = Append(calls, quit)
    /\ pc' = "done"
    /\ UNCHANGED <<pdf, quick_mode, driver, waited, stable_count,
                   last_signature, parsed_statuses, prev_poll, last_poll,
                   polls, results, parsed_ok, error, ret>>
    /\ UNCHANGED <<statuses_used, last_qualified, reread, from_html>>
    /\ UNCHANGED <<cellVars, poolVars, svcVars>>

\* A call of validate_pdf_with_tcees on any file, in either mode.
Init ==
    /\ pdf \in Pdfs
    /\ quick_mode \in BOOLEAN
    /\ ValidatorAt("start")
    /\ CellIdle
    /\ PoolIdle
    /\ ServiceIdle

Next ==
    \/ CheckFile
    \/ StartDriver
    \/ Navigate
    \/ Poll
    \/ Build
    \/ Score
    \/ HandleException
    \/ Finally

Spec == Init /\ [][Next]_vars

\* The function is sequential code that keeps running: every sleep and every
\* call of the browser returns or raises.
SpecLive == Spec /\ WF_vars(Next)

-----------------------------------------------------------------------------
(* The polling loop                                                        *)

\* A reading that counts towards stability: eight statuses, at least six of
\* them resolved.
Qualifies(statuses) ==
    /\ Len(statuses) = Eight
    /\ Resolved(statuses) >= MinResolved

\* The loop has been left with time remaining.
StoppedEarly == pc = "build" /\ waited < MaxWait(quick_mode)

\* C1: the polling loop stops before the time limit (max_wait) only when the
\* two most recent consecutive polls both returned eight statuses with at
\* least 6 resolved and with identical signatures; two equal readings
\* separated by a partial or unreadable poll never end it early.
C1_StopsOnlyAfterTwoConsecutiveEqualReadings ==
    StoppedEarly =>
        /\ Qualifies(prev_poll)
        /\ Qualifies(last_poll)
        /\ StatusesSignature(prev_poll) = StatusesSignature(last_poll)

-----------------------------------------------------------------------------
(* _status_from_cell_html on every cell text                               *)

MaxCellFragments == 2
CellFragments ==
    {"fa", "fa-spinner", "fa-check", "text-success", "title=\"ok\"",
     "fa-close", "fa-times", "text-danger", "nao assinado", "não assinado",
     "invalido", "inválido", "erro", "FA-CHECK", "Text-Success",
     "TITLE=\"OK\"", "FA-TIMES", "NÃO ASSINADO", "Nao Assinado", "Erro"}
CellTexts == SeqsUpTo(CellFragments, MaxCellFragments)

InitCell ==
    /\ cell_html \in CellTexts
    /\ cell_status = "unset"
    /\ pdf = CHOOSE p \in Pdfs : ~p.exists
    /\ quick_mode = FALSE
    /\ ValidatorAt("idle")
    /\ PoolIdle
    /\ ServiceIdle

\* The call _status_from_cell_html(cell_html).
Classify ==
    /\ cell_status = "unset"
    /\ cell_status' = StatusFromCellHtml(cell_html)
    /\ UNCHANGED cell_html
    /\ UNCHANGED <<valVars, poolVars, svcVars>>

NextCell == Classify

SpecCell == InitCell /\ [][NextCell]_vars

\* The two facts about a cell text, letter case aside.
HasSuccessMarker(cell) ==
    \E i \in 1..Len(cell) : \E m \in 1..Len(success_markers) :
        LowerFragment(cell[i]) = success_markers[m]

HasFailureMarker(cell) ==
    \E i \in 1..Len(cell) : \E m \in 1..Len(failure_markers) :
        LowerFragment(cell[i]) = failure_markers[m]

\* C2: _status_from_cell_html returns False whenever a failure marker is
\* present (also when a success marker is present too), True when only
\* success markers are present, None when neither kind is present, and
\* nothing else.
C2_CellStatusFromTwoFacts ==
    cell_status # "unset" =>
        /\ cell_status \in {"True", "False", "None"}
        /\ HasFailureMarker(cell_html) => cell_status = "False"
        /\ (HasSuccessMarker(cell_html) /\ ~HasFailureMarker(cell_html))
              => cell_status = "True"
        /\ (~HasSuccessMarker(cell_html) /\ ~HasFailureMarker(cell_html))
              => cell_status = "None"

\* A cell holding a success and a failure marker has been classified.
C2_Witness ==
    /\ cell_status = "False"
    /\ HasSuccessMarker(cell_html)
    /\ HasFailureMarker(cell_html)

-----------------------------------------------------------------------------
(* The record built from every list of statuses: lines 363-485 of          *)
(* validate_pdf_with_tcees, entered with any list in parsed_statuses       *)

Status == {"True", "False", "None"}

\* Lists of eight statuses, followed by up to MaxExtra further ones.
MaxExtra == 1
LongLists ==
    {eight \o [i \in 1..extra |-> "False"] :
        eight \in [1..Eight -> Status], extra \in 0..MaxExtra}

\* Lists of fewer than eight statuses; the empty one is also None.
ShortLists == {[i \in 1..n |-> "True"] : n \in 0..(Eight - 1)}

StatusLists == LongLists \cup ShortLists

InitRecord ==
    /\ pdf \in {p \in Pdfs : p.exists}
    /\ quick_mode = FALSE
    /\ pc = "build"
    /\ driver = "live"
    /\ calls = <<"start">>
    /\ waited = 0
    /\ stable_count = 0
    /\ last_signature = <<>>
    /\ parsed_statuses \in StatusLists
    /\ prev_poll = <<>>
    /\ last_poll = <<>>
    /\ polls = 0
    /\ last_qualified = parsed_statuses
    /\ reread = NotCalled
    /\ from_html = NotCalled
    /\ statuses_used = <<>>
    /\ results = NoRecord
    /\ parsed_ok = "unset"
    /\ error = NoError
    /\ ret = NoRecord
    /\ CellIdle
    /\ PoolIdle
    /\ ServiceIdle

NextRecord ==
    \/ Build
    \/ Score
    \/ HandleException
    \/ Finally

SpecRecord == InitRecord /\ [][NextRecord]_vars

\* _apply_statuses_to_results has just returned.
Applied == pc = "score"

\* The function has returned the dict ret.
Returned == pc = "done"

\* C3: for a list of at least eight statuses _apply_statuses_to_results sets
\* each boolean field to True exactly when its status is True, index 5 giving
\* both autenticidade_ok and integridade_ok, and numero_assinaturas to 1 when
\* assinado and 0 otherwise; with fewer than eight statuses (or none) it
\* returns False and leaves the record unchanged.  autenticidade_ok equals
\* integridade_ok in every returned record.
C3_FieldsFollowStatuses ==
    /\ Applied =>
         IF Len(statuses_used) >= 8
         THEN /\ parsed_ok = "True"
              /\ results.extensao_valida    = (statuses_used[1] = "True")
              /\ results.sem_senha          = (statuses_used[2] = "True")
              /\ results.tamanho_arquivo_ok = (statuses_used[3] = "True")
              /\ results.tamanho_pagina_ok  = (statuses_used[4] = "True")
              /\ results.assinado           = (statuses_used[5] = "True")
              /\ results.autenticidade_ok   = (statuses_used[6] = "True")
              /\ results.integridade_ok     = (statuses_used[6] = "True")
              /\ results.pesquisavel        = (statuses_used[7] = "True")
              /\ results.numero_assinaturas = IF results.assinado THEN 1 ELSE 0
         ELSE /\ parsed_ok = "False"
              /\ results = InitialResults(pdf)
    /\ (Returned /\ "autenticidade_ok" \in DOMAIN ret) =>
         ret.autenticidade_ok = ret.integridade_ok

\* More than eight statuses were applied, the sixth True and the seventh not.
C3_Witness ==
    /\ Applied
    /\ Len(statuses_used) > 8
    /\ statuses_used[6] = "True"
    /\ statuses_used[7] = "None"
    /\ results.integridade_ok

\* The seven fields the score counts.
ScoredFields ==
    {"extensao_valida", "sem_senha", "tamanho_arquivo_ok", "tamanho_pagina_ok",
     "assinado", "autenticidade_ok", "pesquisavel"}

\* The number of them that are True in record r; none when r has no checks.
TrueScoredFields(r) ==
    IF ScoredFields \subseteq DOMAIN r
    THEN Cardinality({f \in ScoredFields : r[f]})
    ELSE 0

\* C4: pontuacao of every returned record equals floor(k * 100 / 7), k the
\* number of True values among the seven scored fields; it is one of 0, 14,
\* 28, 42, 57, 71, 85, 100, and 100 exactly when all seven are True.
C4_ScoreIsFloorOfSevenths ==
    Returned =>
        /\ ret.pontuacao = (TrueScoredFields(ret) * 100) \div 7
        /\ ret.pontuacao \in {0, 14, 28, 42, 57, 71, 85, 100}
        /\ (ret.pontuacao = 100) <=> (TrueScoredFields(ret) = 7)

\* A record was returned with integridade_ok True and three scored fields
\* True.
C4_Witness ==
    /\ Returned
    /\ parsed_ok = "True"
    /\ ret.integridade_ok
    /\ TrueScoredFields(ret) = 3
    /\ ret.pontuacao = 42

\* C10: when eight statuses were obtained, resultado_final is decided by the
\* eighth status alone when it is resolved; only when it is None is it
\* inferred, VALIDADO exactly when the seven checks are all True; it is
\* never ERRO.
C10_VerdictFromEighthStatus ==
    parsed_ok = "True" =>
        /\ statuses_used[8] = "True" => results.resultado_final = "VALIDADO"
        /\ statuses_used[8] = "False" => results.resultado_final = "NÃO VALIDADO"
        /\ statuses_used[8] = "None" =>
             results.resultado_final =
                 IF \A f \in ScoredFields : results[f]
                 THEN "VALIDADO" ELSE "NÃO VALIDADO"
        /\ results.resultado_final # "ERRO"
        /\ Returned => ret.resultado_final = results.resultado_final

\* A record was returned as VALIDADO on the eighth status although a check
\* failed.
C10_Witness ==
    /\ Returned
    /\ parsed_ok = "True"
    /\ statuses_used[8] = "True"
    /\ statuses_used[5] = "False"
    /\ ret.resultado_final = "VALIDADO"

-----------------------------------------------------------------------------
(* Exceptions and the browser's life cycle                                 *)

\* An exception was raised and caught.
Caught == error # NoError

\* The text of the exception holds fragment f, letter case aside.
ErrorHas(f) == \E i \in 1..Len(error) : UpperFragment(error[i]) = f

\* The first matching code in the documented order.
FirstMatchingCode ==
    IF ErrorHas("ERR_TUNNEL_CONNECTION_FAILED") THEN "TCEES_NETWORK_BLOCKED"
    ELSE IF ErrorHas("ERR_NAME_NOT_RESOLVED") THEN "TCEES_DNS_ERROR"
    ELSE IF ErrorHas("ERR_CONNECTION_TIMED_OUT") \/ ErrorHas("TIMEOUT")
    THEN "TCEES_TIMEOUT"
    ELSE IF ErrorHas("ERR_CONNECTION_REFUSED") THEN "TCEES_CONNECTION_REFUSED"
    ELSE IF ErrorHas("ERR_CONNECTION_CLOSED") THEN "TCEES_CONNECTION_CLOSED"
    ELSE "TCEES_VALIDATION_ERROR"

\* C5: an exception raised while the browser is started, the page loaded,
\* the file uploaded or the page parsed always ends in a returned error
\* record: resultado_final ERRO, pontuacao 0, the eight check fields False,
\* numero_assinaturas 0, and erro_codigo the first matching code in the
\* fixed order, matched without regard to letter case.
C5_ExceptionBecomesErrorRecord ==
    /\ pc = "except" => Caught
    /\ (Caught /\ pc \in {"finally", "done"}) =>
         /\ ret.resultado_final = "ERRO"
         /\ ret.pontuacao = 0
         /\ \A f \in ScoredFields \cup {"integridade_ok"} : ret[f] = FALSE
         /\ ret.numero_assinaturas = 0
         /\ ret.erro_codigo = FirstMatchingCode
         /\ ret.erro_tecnico = error

\* An exception whose text names a refused connection and, in lower case, a
\* timeout was returned as TCEES_TIMEOUT.
C5_Witness ==
    /\ Returned
    /\ Contains(error, "ERR_CONNECTION_REFUSED")
    /\ Contains(error, "timeout")
    /\ ret.erro_codigo = "TCEES_TIMEOUT"

QuitAttempts == {i \in 1..Len(calls) : calls[i] \in {"quit", "quit failed"}}

ShotAttempts ==
    {i \in 1..Len(calls) : calls[i] \in {"screenshot", "screenshot failed"}}

\* C9: whenever the driver was started, driver.quit() is attempted exactly
\* once before the function returns, on the success path, the parse-failure
\* path and the exception path (there after the screenshot attempt); a
\* failure of quit() or of the screenshot never changes the returned record.
\* When the file does not exist or the driver could not be started, no quit
\* is attempted, and no browser is started for a missing file.
C9_QuitExactlyOnceWhenStarted ==
    /\ Cardinality(QuitAttempts) <= 1
    /\ QuitAttempts # {} => Returned
    /\ Returned =>
         /\ driver # "none" =>
              /\ calls[1] = "start"
              /\ QuitAttempts = {Len(calls)}
              /\ ShotAttempts = IF Caught THEN {2} ELSE {}
              /\ Len(calls) = IF Caught THEN 3 ELSE 2
         /\ driver = "none" =>
              /\ QuitAttempts = {}
              /\ ShotAttempts = {}
         /\ ~pdf.exists => calls = <<>>
         /\ ret = IF Caught THEN ErrorRecord(pdf, error)
                  ELSE IF ~pdf.exists THEN MissingFileRecord(pdf)
                  ELSE results

\* The function returned from the exception path after a failed screenshot
\* and a failed quit.
C9_Witness ==
    /\ Returned
    /\ calls = <<"start", "screenshot failed", "quit failed">>
    /\ ret.resultado_final = "ERRO"

-----------------------------------------------------------------------------
(* validate_multiple_pdfs                                                  *)

MaxDocs == 3      \* pdf_paths[:3]

Min(a, b) == IF a < b THEN a ELSE b

\* The paths a caller may pass, and how many, and the max_workers it may ask.
BatchPaths ==
    { <<"u", "/", "a", ".", "p", "d", "f">>,
      <<"B", ".", "P", "D", "F">>,
      <<"u", "/", "c", ".", "t", "x", "t">> }
MaxPaths == 4
MaxWorkersArg == 4

\* No call of validate_pdf_with_tcees is modelled step by step here.
ValidatorIdle ==
    /\ pdf = CHOOSE p \in Pdfs : ~p.exists
    /\ quick_mode = FALSE
    /\ ValidatorAt("idle")

CutPaths_NoSlice(paths) == paths

\* pdf_paths[:3]
CutPaths(paths) == SubSeq(paths, 1, Min(Len(paths), MaxDocs))

\* min(max_workers, len(pdf_paths))
PoolSize(workers, paths) == Min(workers, Len(paths))

\* What validate_pdf_with_tcees returns for a path, as far as the batch goes:
\* every dict it returns carries the base name of its path.
ValidatedRecord(path, verdict) ==
    [nome_arquivo |-> Basename(path), resultado_final |-> verdict]

\* Text of the exception a call raises.
WorkerErrorText == <<"worker failed">>

\* The dict of the except clause, lines 505-509.
BatchErrorRecord(path) ==
    [nome_arquivo    |-> Basename(path),
     resultado_final |-> "ERRO",
     erro            |-> WorkerErrorText]

CollectResults_CompletionOrder(futures, order) ==
    [i \in 1..Len(futures) |-> futures[order[i]]]

\* list(executor.map(...)): the results of the calls in the order of the
\* paths; order is the order in which the calls finished.
CollectResults(futures, order) ==
    [i \in 1..Len(futures) |-> futures[i]]

InitBatch ==
    /\ arg_paths \in SeqsUpTo(BatchPaths, MaxPaths)
    /\ max_workers \in 0..MaxWorkersArg
    /\ pdf_paths = arg_paths
    /\ batch_pc = "start"
    /\ pool_size = 0
    /\ task = <<>>
    /\ fut = <<>>
    /\ completed = <<>>
    /\ batch_results = <<>>
    /\ ValidatorIdle
    /\ CellIdle
    /\ ServiceIdle

\* Lines 490-500: the empty list returns at once; otherwise the list is cut,
\* the pool made (ThreadPoolExecutor raises ValueError for max_workers < 1,
\* outside the try) and every call submitted.
StartBatch ==
    /\ batch_pc = "start"
    /\ \/ /\ arg_paths = <<>>
          /\ batch_results' = <<>>
          /\ batch_pc' = "done"
          /\ UNCHANGED <<pdf_paths, pool_size, task, fut>>
       \/ /\ arg_paths # <<>>
          /\ PoolSize(max_workers, CutPaths(arg_paths)) < 1
          /\ pdf_paths' = CutPaths(arg_paths)
          /\ batch_pc' = "raised"
          /\ UNCHANGED <<pool_size, task, fut, batch_results>>
       \/ /\ arg_paths # <<>>
          /\ PoolSize(max_workers, CutPaths(arg_paths)) >= 1
          /\ pdf_paths' = CutPaths(arg_paths)
          /\ pool_size' = PoolSize(max_workers, CutPaths(arg_paths))
          /\ task' = [i \in 1..Len(CutPaths(arg_paths)) |-> "queued"]
          /\ fut' = [i \in 1..Len(CutPaths(arg_paths)) |-> NoRecord]
          /\ batch_pc' = "map"
          /\ UNCHANGED batch_results
    /\ UNCHANGED <<arg_paths, max_workers, completed>>
    /\ UNCHANGED <<cellVars, valVars, svcVars>>

Running == {i \in 1..Len(task) : task[i] = "running"}

\* A free worker thread takes the oldest queued call.
WorkerTake ==
    /\ batch_pc \in {"map", "shutdown"}
    /\ Cardinality(Running) < pool_size
    /\ \E i \in 1..Len(task) :
         /\ task[i] = "queued"
         /\ \A j \in 1..(i - 1) : task[j] # "queued"
         /\ task' = [task EXCEPT ![i] = "running"]
    /\ UNCHANGED <<arg_paths, max_workers, pdf_paths, batch_pc, pool_size, fut,
                   completed, batch_results>>
    /\ UNCHANGED <<cellVars, valVars, svcVars>>

\* A running call of validate_pdf_with_tcees returns its dict, or raises.
WorkerFinish ==
    /\ batch_pc \in {"map", "shutdown"}
    /\ \E i \in Running :
         /\ \/ \E verdict \in {"VALIDADO", "ERRO"} :
                 /\ fut' = [fut EXCEPT ![i] = ValidatedRecord(pdf_paths[i], verdict)]
                 /\ task' = [task EXCEPT ![i] = "returned"]
            \/ /\ task' = [task EXCEPT ![i] = "raised"]
               /\ UNCHANGED fut
         /\ completed' = Append(completed, i)
    /\ UNCHANGED <<arg_paths, max_workers, pdf_paths, batch_pc, pool_size,
                   batch_results>>
    /\ UNCHANGED <<cellVars, valVars, svcVars>>

\* Lines 500-509: list(...) takes the results in the order of the paths; at
\* the first call that raised, the calls still queued are cancelled and the
\* except clause makes one error dict per path.
Collect ==
    /\ batch_pc = "map"
    /\ \/ /\ \A i \in 1..Len(task) : task[i] = "returned"
          /\ batch_results' = CollectResults(fut, completed)
          /\ UNCHANGED task
       \/ /\ \E k \in 1..Len(task) :
               /\ task[k] = "raised"
               /\ \A j \in 1..(k - 1) : task[j] = "returned"
          /\ task' = [i \in 1..Len(task) |->
                         IF task[i] = "queued" THEN "cancelled" ELSE task[i]]
          /\ batch_results' =
                 [i \in 1..Len(pdf_paths) |-> BatchErrorRecord(pdf_paths[i])]
    /\ batch_pc' = "shutdown"
    /\ UNCHANGED <<arg_paths, max_workers, pdf_paths, pool_size, fut, completed>>
    /\ UNCHANGED <<cellVars, valVars, svcVars>>

\* Lines 498 and 511-517: leaving the with block waits for the calls still
\* running; then the function returns results.
Shutdown ==
    /\ batch_pc = "shutdown"
    /\ \A i \in 1..Len(task) : task[i] \in {"returned", "raised", "cancelled"}
    /\ batch_pc' = "done"
    /\ UNCHANGED <<arg_paths, max_workers, pdf_paths, pool_size, task, fut,
                   completed, batch_results>>
    /\ UNCHANGED <<cellVars, valVars, svcVars>>

NextBatch ==
    \/ StartBatch
    \/ WorkerTake
    \/ WorkerFinish
    \/ Collect
    \/ Shutdown

SpecBatch == InitBatch /\ [][NextBatch]_vars

\* The calls of validate_pdf_with_tcees that were started.
Started == {i \in 1..Len(task) : task[i] \in {"running", "returned", "raised"}}

\* C6: validate_multiple_pdfs validates at most 3 documents per call: only
\* the first min(len, 3) paths are processed, never more than
\* min(max_workers, 3) validations run at the same time, exactly one result
\* per processed path is returned, result i belonging to path i whatever the
\* order in which the validations finish; an empty input returns an empty
\* list and starts no validation.
C6_AtMostThreeInOrder ==
    /\ Len(task) <= Min(Len(arg_paths), 3)
    /\ \A i \in Started : i <= 3 /\ pdf_paths[i] = arg_paths[i]
    /\ Cardinality(Running) <= Min(max_workers, 3)
    /\ batch_pc = "done" =>
         /\ Len(batch_results) = Min(Len(arg_paths), 3)
         /\ \A i \in 1..Len(batch_results) :
              batch_results[i].nome_arquivo = Basename(arg_paths[i])
         /\ (\A i \in 1..Len(task) : task[i] = "returned") =>
              \A i \in 1..Len(task) : batch_results[i] = fut[i]
    /\ arg_paths = <<>> => Started = {}

\* Four different-named paths were given, the third validation finished
\* first, and three results were returned.
C6_Witness ==
    /\ batch_pc = "done"
    /\ Len(arg_paths) = 4
    /\ Basename(arg_paths[1]) # Basename(arg_paths[3])
    /\ completed = <<3, 1, 2>>
    /\ \A i \in 1..3 : task[i] = "returned"
    /\ Len(batch_results) = 3

-----------------------------------------------------------------------------
(* POST /validate                                                          *)

DefaultMaxFileMB == 20      \* TCEES_MAX_FILE_MB when the variable is unset

MiB == 1024 * 1024

\* The requests being handled, each by its own thread of the server.
ReqIds == {"r1", "r2"}

\* The configuration read at start-up.
Secrets == {"", "s3cret"}
MaxFileMBs == {1, DefaultMaxFileMB}

\* request.headers.get("X-API-Secret"); None is "<none>".
Headers == {"<none>", "s3cret", "wrong"}

FileNames ==
    { <<"a", ".", "p", "d", "f">>,
      <<"A", ".", "P", "D", "F">>,
      <<"a", ".", "t", "x", "t">>,
      <<"p", "d", "f">>,
      <<>> }

\* Sizes in bytes, at and next to each limit.
FileSizes == {0} \cup {mb * MiB : mb \in MaxFileMBs} \cup {mb * MiB + 1 : mb \in MaxFileMBs}

\* A request is the header, whether the form holds the field 'file', and the
\* name and size of the upload when it does.
Requests ==
    {[header |-> h, has_file |-> FALSE, filename |-> <<>>, size |-> 0] :
        h \in Headers}
    \cup [header : Headers, has_file : {TRUE}, filename : FileNames,
          size : FileSizes]

\* Names tempfile gives; the uuid in the suffix makes each one new.
TempNames == { <<"t", "1">>, <<"t", "2">>, <<"t", "3">> }

NoRequest  == [header |-> "<none>", has_file |-> FALSE, filename |-> <<>>, size |-> -1]
NoResponse == [status |-> 0]

AuthOk_MissingHeaderPasses(secret, header) ==
    IF secret = "" THEN TRUE
    ELSE header = secret \/ header = "<none>"

\* _auth_ok
AuthOk(secret, header) ==
    IF secret = "" THEN TRUE
    ELSE header = secret

\* size_mb > MAX_FILE_MB, size_mb = size / (1024 * 1024); dividing by a power
\* of two is exact in floating point, so the comparison is that of integers.
SizeExceeds(size, limit_mb) == size > limit_mb * MiB

ErrorResponse(status, code) ==
    [status |-> status, resultado_final |-> "ERRO", erro_codigo |-> code]

\* Lines 48-79: the response of the first check that fails, NoResponse when
\* none does.
Rejection(secret, limit_mb, q) ==
    IF ~AuthOk(secret, q.header) THEN ErrorResponse(401, "AUTH_ERROR")
    ELSE IF ~q.has_file THEN ErrorResponse(400, "NO_FILE")
    ELSE IF ~EndsWith(LowerChars(q.filename), DotPdf)
    THEN ErrorResponse(400, "NOT_PDF")
    ELSE IF SizeExceeds(q.size, limit_mb)
    THEN ErrorResponse(413, "FILE_TOO_LARGE")
    ELSE NoResponse

\* What validate_pdf_with_tcees returns for the temporary file, as far as the
\* handler goes.
ServiceRecords(path) ==
    {[nome_arquivo |-> Basename(path), resultado_final |-> v,
      pontuacao |-> IF v = "VALIDADO" THEN 100 ELSE 0] :
        v \in {"VALIDADO", "ERRO"}}

InitService ==
    /\ api_secret \in Secrets
    /\ max_file_mb \in MaxFileMBs
    /\ req = [r \in ReqIds |-> NoRequest]
    /\ handler_pc = [r \in ReqIds |-> "waiting"]
    /\ tmp_path = [r \in ReqIds |-> <<>>]
    /\ handler_log = [r \in ReqIds |-> <<>>]
    /\ resultado = [r \in ReqIds |-> NoRecord]
    /\ resp = [r \in ReqIds |-> NoResponse]
    /\ tmp_files = {}
    /\ ValidatorIdle
    /\ CellIdle
    /\ PoolIdle

\* Lines 48-87: the checks; then the temporary file is made, which may raise,
\* and the upload saved to it, which may raise too and leaves the file (the
\* handler ends with a 500 either way).
Receive(r) ==
    /\ handler_pc[r] = "waiting"
    /\ \E q \in Requests :
         /\ req' = [req EXCEPT ![r] = q]
         /\ \/ /\ Rejection(api_secret, max_file_mb, q) # NoResponse
               /\ resp' = [resp EXCEPT ![r] = Rejection(api_secret, max_file_mb, q)]
               /\ handler_pc' = [handler_pc EXCEPT ![r] = "done"]
               /\ UNCHANGED <<tmp_path, handler_log, tmp_files>>
            \/ /\ Rejection(api_secret, max_file_mb, q) = NoResponse
               /\ \E name \in TempNames :
                    /\ name \notin tmp_files
                    /\ \A other \in ReqIds : tmp_path[other] # name
                    /\ tmp_path' = [tmp_path EXCEPT ![r] = name]
                    /\ tmp_files' = tmp_files \cup {name}
               /\ \/ /\ handler_log' = [handler_log EXCEPT ![r] = <<"tempfile", "save">>]
                     /\ handler_pc' = [handler_pc EXCEPT ![r] = "saved"]
                     /\ UNCHANGED resp
                  \/ /\ handler_log' = [handler_log EXCEPT ![r] = <<"tempfile", "save failed">>]
                     /\ handler_pc' = [handler_pc EXCEPT ![r] = "done"]
                     /\ resp' = [resp EXCEPT ![r] = [status |-> 500]]
            \/ /\ Rejection(api_secret, max_file_mb, q) = NoResponse
               /\ handler_log' = [handler_log EXCEPT ![r] = <<"tempfile failed">>]
               /\ handler_pc' = [handler_pc EXCEPT ![r] = "done"]
               /\ resp' = [resp EXCEPT ![r] = [status |-> 500]]
               /\ UNCHANGED <<tmp_path, tmp_files>>
    /\ UNCHANGED <<api_secret, max_file_mb, resultado>>
    /\ UNCHANGED <<cellVars, valVars, poolVars>>

\* Lines 89-93: the validator returns a dict, to which the uploaded name is
\* written, or something in the try block raises.
Validate(r) ==
    /\ handler_pc[r] = "saved"
    /\ handler_log' = [handler_log EXCEPT ![r] = Append(@, "validate")]
    /\ \/ \E rec \in ServiceRecords(tmp_path[r]) :
            /\ resultado' = [resultado EXCEPT
                               ![r] = [rec EXCEPT !.nome_arquivo = req[r].filename]]
            /\ handler_pc' = [handler_pc EXCEPT ![r] = "validated"]
       \/ /\ handler_pc' = [handler_pc EXCEPT ![r] = "raising"]
          /\ UNCHANGED resultado
    /\ UNCHANGED <<api_secret, max_file_mb, req, tmp_path, resp, tmp_files>>
    /\ UNCHANGED <<cellVars, valVars, poolVars>>

Cleanup_OnlyAfterSuccess(r) ==
    /\ handler_pc[r] \in {"validated", "raising"}
    /\ \/ /\ handler_pc[r] = "validated"
          /\ tmp_files' = tmp_files \ {tmp_path[r]}
          /\ handler_log' = [handler_log EXCEPT ![r] = Append(@, "unlink")]
       \/ /\ handler_pc[r] = "validated"
          /\ handler_log' = [handler_log EXCEPT ![r] = Append(@, "unlink failed")]
          /\ UNCHANGED tmp_files
       \/ /\ handler_pc[r] = "raising"
          /\ UNCHANGED <<tmp_files, handler_log>>
    /\ resp' = [resp EXCEPT
                  ![r] = IF handler_pc[r] = "validated"
                         THEN [status |-> 200, body |-> resultado[r]]
                         ELSE [status |-> 500]]
    /\ handler_pc' = [handler_pc EXCEPT ![r] = "done"]
    /\ UNCHANGED <<api_secret, max_file_mb, req, tmp_path, resultado>>
    /\ UNCHANGED <<cellVars, valVars, poolVars>>

\* Lines 94-101: the finally clause: os.unlink removes the file or raises,
\* which is ignored; then the dict is returned with 200, or the exception of
\* the try block goes on (a 500).
Cleanup(r) ==
    /\ handler_pc[r] \in {"validated", "raising"}
    /\ \/ /\ tmp_files' = tmp_files \ {tmp_path[r]}
          /\ handler_log' = [handler_log EXCEPT ![r] = Append(@, "unlink")]
       \/ /\ handler_log' = [handler_log EXCEPT ![r] = Append(@, "unlink failed")]
          /\ UNCHANGED tmp_files
    /\ resp' = [resp EXCEPT
                  ![r] = IF handler_pc[r] = "validated"
                         THEN [status |-> 200, body |-> resultado[r]]
                         ELSE [status |-> 500]]
    /\ handler_pc' = [handler_pc EXCEPT ![r] = "done"]
    /\ UNCHANGED <<api_secret, max_file_mb, req, tmp_path, resultado>>
    /\ UNCHANGED <<cellVars, valVars, poolVars>>

NextService ==
    \E r \in ReqIds :
        \/ Receive(r)
        \/ Validate(r)
        \/ Cleanup(r)

SpecService == InitService /\ [][NextService]_vars

-----------------------------------------------------------------------------
(* POST /validate: the order of the checks                                 *)

Handled(r) == handler_pc[r] # "waiting"

HeaderRejects(r) == api_secret # "" /\ req[r].header # api_secret

NameIsPdf(name) ==
    /\ Len(name) >= 4
    /\ LowerChars(SubSeq(name, Len(name) - 3, Len(name))) = <<".", "p", "d", "f">>

FirstFailingCheck(r) ==
    IF HeaderRejects(r) THEN <<401, "AUTH_ERROR">>
    ELSE IF ~req[r].has_file THEN <<400, "NO_FILE">>
    ELSE IF ~NameIsPdf(req[r].filename) THEN <<400, "NOT_PDF">>
    ELSE IF req[r].size > max_file_mb * 1024 * 1024 THEN <<413, "FILE_TOO_LARGE">>
    ELSE <<0, "none">>

ValidatorInvoked(r) ==
    \E i \in 1..Len(handler_log[r]) : handler_log[r][i] = "validate"

TempFileCreated(r) == tmp_path[r] # <<>>

\* C7: the checks of POST /validate are made in the order header, 'file'
\* field, '.pdf' extension without regard to case, size; the first one that
\* fails alone gives the response (401 AUTH_ERROR, 400 NO_FILE, 400 NOT_PDF,
\* 413 FILE_TOO_LARGE only for a size strictly above the limit in megabytes),
\* with resultado_final = 'ERRO'. A rejected request creates no temporary
\* file and never invokes the validator; without a configured secret the
\* header check rejects nothing, and with one a request whose header is
\* missing or different never reaches the validator.
C7_FirstFailingCheckDecides ==
    /\ \A r \in ReqIds :
         Handled(r) =>
           /\ FirstFailingCheck(r)[1] # 0 =>
                /\ handler_pc[r] = "done"
                /\ resp[r] = [status |-> FirstFailingCheck(r)[1],
                              resultado_final |-> "ERRO",
                              erro_codigo |-> FirstFailingCheck(r)[2]]
                /\ ~TempFileCreated(r)
                /\ handler_log[r] = <<>>
           /\ FirstFailingCheck(r)[1] = 0 => resp[r].status \notin {400, 401, 413}
           /\ api_secret = "" => resp[r].status # 401
           /\ HeaderRejects(r) => ~ValidatorInvoked(r)
    /\ tmp_files \subseteq {tmp_path[r] : r \in ReqIds}

C7_Witness ==
    /\ api_secret # ""
    /\ req["r1"].has_file
    /\ NameIsPdf(req["r1"].filename)
    /\ req["r1"].size = max_file_mb * 1024 * 1024 + 1
    /\ resp["r1"] = ErrorResponse(413, "FILE_TOO_LARGE")
    /\ req["r2"].filename = <<"A", ".", "P", "D", "F">>
    /\ req["r2"].size = max_file_mb * 1024 * 1024
    /\ ValidatorInvoked("r2")
    /\ resp["r2"].status = 200

-----------------------------------------------------------------------------
(* POST /validate: the temporary file                                      *)

Saved(r) == Len(handler_log[r]) >= 2 /\ handler_log[r][2] = "save"

UnlinkAttempts(r) ==
    {i \in 1..Len(handler_log[r]) : handler_log[r][i] \in {"unlink", "unlink failed"}}

\* The response the try block alone gives: the record with the uploaded name
\* and 200, or the exception.
ResponseOfTry(r) ==
    IF resultado[r] # NoRecord
    THEN [status |-> 200, body |-> resultado[r]]
    ELSE [status |-> 500]

RemovalOnceAfterValidator(r) ==
    /\ handler_pc[r] = "done" =>
         /\ Len(handler_log[r]) = 4
         /\ handler_log[r][3] = "validate"
         /\ UnlinkAttempts(r) = {4}
         /\ resp[r] = ResponseOfTry(r)
         /\ resultado[r] # NoRecord => resultado[r].nome_arquivo = req[r].filename
    /\ handler_pc[r] # "done" =>
         /\ UnlinkAttempts(r) = {}
         /\ tmp_path[r] \in tmp_files

OwnTempFile ==
    \A r1, r2 \in ReqIds :
        (r1 # r2 /\ TempFileCreated(r1) /\ TempFileCreated(r2)) =>
            tmp_path[r1] # tmp_path[r2]

\* C8: once the upload is saved to a temporary file, its removal is attempted
\* exactly once on every path out of the handler, after the validator has
\* finished, whether the validator returned a record or something raised; a
\* failing removal does not change the response; no request leaves its
\* temporary file behind after the handler ends; each request has its own
\* temporary file.
C8_NoTempFileLeftBehind ==
    /\ \A r \in ReqIds :
         Saved(r) =>
           /\ RemovalOnceAfterValidator(r)
           /\ handler_pc[r] = "done" => tmp_path[r] \notin tmp_files
    /\ OwnTempFile

\* C8 (amended): once the upload is saved to a temporary file, its removal is
\* attempted exactly once on every path out of the handler, after the
\* validator has finished, whether the validator returned a record or
\* something raised; a failing removal does not change the response. After
\* the handler ends the temporary file is gone exactly when the removal
\* succeeded: it stays behind when the removal itself failed, and also when
\* saving the upload failed, where no removal is attempted. Each request has
\* its own temporary file.
C8_TempFileGoneUnlessRemovalFailed ==
    /\ \A r \in ReqIds :
         /\ Saved(r) =>
              /\ RemovalOnceAfterValidator(r)
              /\ handler_pc[r] = "done" =>
                   (tmp_path[r] \in tmp_files <=> handler_log[r][4] = "unlink failed")
         /\ (TempFileCreated(r) /\ ~Saved(r)) =>
              /\ handler_log[r] = <<"tempfile", "save failed">>
              /\ tmp_path[r] \in tmp_files
    /\ OwnTempFile

C8_Witness ==
    /\ handler_log["r1"] = <<"tempfile", "save", "validate", "unlink failed">>
    /\ resp["r1"].status = 200
    /\ tmp_files = {tmp_path["r1"]}
    /\ handler_log["r2"] = <<"tempfile", "save", "validate", "unlink">>
    /\ resp["r2"].status = 500

-----------------------------------------------------------------------------
(* validate_pdf_with_tcees: the three sources of the statuses and the      *)
(* fallback when none gives a list                                         *)

\* The statuses have been chosen (lines 404-408 have run).
Chosen == pc \in {"score", "finally", "done"} /\ parsed_ok # "unset"

\* Neither the loop, nor the re-read of the elements, nor the page's HTML
\* gave a list.
NothingObtained ==
    /\ Chosen
    /\ last_qualified = <<>>
    /\ reread = <<>>
    /\ from_html = <<>>

SourcesInOrder ==
    Chosen =>
      /\ last_qualified # <<>> =>
           /\ statuses_used = last_qualified
           /\ reread = NotCalled
           /\ from_html = NotCalled
      /\ last_qualified = <<>> =>
           /\ reread # NotCalled
           /\ reread # <<>> => (statuses_used = reread /\ from_html = NotCalled)
           /\ reread = <<>> => (from_html # NotCalled /\ statuses_used = from_html)

OtherChecksFalse(r) ==
    /\ ~r.sem_senha
    /\ ~r.tamanho_pagina_ok
    /\ ~r.assinado
    /\ ~r.autenticidade_ok
    /\ ~r.integridade_ok
    /\ ~r.pesquisavel

TwoFieldScore(r) ==
    LET n == (IF r.extensao_valida THEN 1 ELSE 0)
             + (IF r.tamanho_arquivo_ok THEN 1 ELSE 0)
    IN  r.pontuacao = (100 * n) \div 7 /\ r.pontuacao \in {0, 14, 28}

\* The path ends in .pdf, in either case of the letters.
EndsInPdf(path) ==
    /\ Len(path) >= 4
    /\ LowerChars(SubSeq(path, Len(path) - 3, Len(path))) = <<".", "p", "d", "f">>

\* The path ends in .pdf and its last component has a character other than
\* a dot before that last dot.
HasPdfExtension(path) ==
    /\ EndsInPdf(path)
    /\ \E i \in 1..(Len(path) - 4) :
         /\ path[i] \notin {".", "/"}
         /\ \A j \in i..(Len(path) - 4) : path[j] # "/"

\* C11: when neither the loop, nor the final re-read of the elements, nor the
\* page's HTML gives a list of eight statuses, the function returns
\* resultado_final = 'ERRO' with a non-empty mensagem_erro; every check field
\* is False but extensao_valida (True when the path ends in .pdf) and
\* tamanho_arquivo_ok (True when the file is not empty), and pontuacao comes
\* from those two alone (0, 14 or 28).  The sources are tried in that order,
\* a later one being used only when every earlier one gave nothing.
C11_NoStatusesGivesErro ==
    /\ (NothingObtained /\ pc = "done") =>
         /\ ret.resultado_final = "ERRO"
         /\ "mensagem_erro" \in DOMAIN ret
         /\ ret.mensagem_erro # <<>>
         /\ OtherChecksFalse(ret)
         /\ ret.extensao_valida = EndsInPdf(pdf.path)
         /\ ret.tamanho_arquivo_ok = (pdf.size > 0)
         /\ TwoFieldScore(ret)
    /\ SourcesInOrder

\* C11 (amended): when neither the loop, nor the final re-read of the
\* elements, nor the page's HTML gives a list of eight statuses, the function
\* returns resultado_final = 'ERRO'.  While the file is still there the
\* record has a non-empty mensagem_erro, every check field is False but
\* extensao_valida (True when the last component of the path ends in .pdf, in
\* either case, after at least one character that is not a dot) and
\* tamanho_arquivo_ok (True when the file is not empty), and pontuacao comes
\* from those two alone (0, 14 or 28).  When the file has been removed by
\* then, the record of the exception is returned: every check field False,
\* pontuacao 0, erro in place of mensagem_erro.  The sources are tried in
\* that order, a later one being used only when every earlier one gave
\* nothing.
C11_NoStatusesGivesErroBySplitext ==
    /\ (NothingObtained /\ pc = "done") =>
         /\ ret.resultado_final = "ERRO"
         /\ OtherChecksFalse(ret)
         /\ error = NoError =>
              /\ ret.mensagem_erro # <<>>
              /\ ret.extensao_valida = HasPdfExtension(pdf.path)
              /\ ret.tamanho_arquivo_ok = (pdf.size > 0)
              /\ TwoFieldScore(ret)
         /\ error # NoError =>
              /\ ~ret.extensao_valida
              /\ ~ret.tamanho_arquivo_ok
              /\ ret.pontuacao = 0
              /\ "mensagem_erro" \notin DOMAIN ret
              /\ ret.erro # <<>>
    /\ SourcesInOrder

C11_Witness ==
    /\ NothingObtained
    /\ pc = "done"
    /\ error = NoError
    /\ polls > 0
    /\ ret.extensao_valida
    /\ ret.pontuacao = 28

-----------------------------------------------------------------------------
(* validate_pdf_with_tcees: the polling loop ends                          *)

\* The loop has ended because the time was up, not by `break`.
TimedOut ==
    /\ pc \in {"build", "score", "except", "finally", "done"}
    /\ polls > 0
    /\ stable_count = 0
    /\ waited >= MaxWait(quick_mode)

LoopBounds ==
    /\ polls <= (IF quick_mode THEN 15 ELSE 28)
    /\ waited <= MaxWait(quick_mode) + 1
    /\ (TimedOut /\ Chosen /\ last_qualified # <<>>) =>
         statuses_used = last_qualified
    /\ (TimedOut /\ pc = "done") => ret # NoRecord

\* C12: the polling loop always ends, whatever the page shows: with
\* poll_interval = 2 there are at most 28 polls in normal mode and 15 in
\* quick mode, the accumulated wait never exceeds max_wait + 1, and after a
\* time-out the function still builds and returns a record, from the most
\* recent reading with at least 6 resolved statuses when there was one, though
\* it was never confirmed stable.
C12_LoopEndsAndRecordIsReturned ==
    /\ []LoopBounds
    /\ (pc = "poll") ~> (pc = "done" /\ ret # NoRecord)

C12_Witness ==
    /\ pc = "done"
    /\ TimedOut
    /\ ~quick_mode
    /\ polls = 28
    /\ waited = MaxWait(quick_mode) + 1
    /\ last_qualified # <<>>
    /\ statuses_used = last_qualified
    /\ error = NoError
    /\ ret.resultado_final = "VALIDADO"

====
